---- MODULE Spec2Model ----
(***************************************************************************)
(* Model of the object-detection pipeline: the ObjectTracker identity      *)
(* state machine (src/src/tracker.py) and the capture / processing loops   *)
(* around the frame queue (src/src/main.py).                               *)
(***************************************************************************)
EXTENDS Integers, Sequences, FiniteSets, TLC

(***************************************************************************)
(* Bounds of the model.                                                    *)
(***************************************************************************)
MaxObjects == 2

MaxDetections == 2

MaxFrameTime == 1

MaxMissingThreshold == 2
\* the latest frame time of the appear-vanish-reappear scenario
MaxScenarioTime == 5
\* the largest coordinate of the boxes _iou is called with directly
MaxCoord == 2

\* frames the video source delivers before its reads fail
MaxFrames == 3

\* clock ticks the model runs for, and the resolution of the clock
MaxClock == 3

TicksPerSecond == 2

\* tracker.update calls remembered in the history variable processed
MaxProcessed == 2

\* The soft cap of the queue (100 in the code, line 77), scaled down so that the
\* eviction happens within MaxFrames frames; the capacity of the queue (1000 in
\* the code, line 121) keeps its ratio to the soft cap.
SoftCap == 2

HardCap == 10 * SoftCap

(***************************************************************************)
(* Inputs: bounding boxes (xmin, ymin, xmax, ymax) and labels.             *)
(*   IoU(BoxA, BoxB) = 1/2 exactly, IoU(BoxD, BoxA) = 2/3,                 *)
(*   IoU(BoxD, BoxB) = 3/4, BoxE is disjoint from BoxA, BoxZ has no area.  *)
(***************************************************************************)
BoxA == <<0, 0, 2, 1>>

BoxB == <<0, 0, 4, 1>>

BoxD == <<0, 0, 3, 1>>

BoxE == <<2, 0, 4, 1>>

BoxZ == <<1, 0, 1, 1>>

Boxes == {BoxA, BoxB, BoxD, BoxE, BoxZ}

Labels == {"car", "person", "bird"}

Detections ==
    [bbox : {BoxA, BoxB, BoxD, BoxE}, label : {"car"}]
        \cup [bbox : {BoxA}, label : {"person"}]
        \cup [bbox : {BoxA}, label : {"bird"}]

RECURSIVE SeqsUpTo(_, _)
SeqsUpTo(S, n) ==
    IF n = 0 THEN {<<>>}
    ELSE LET shorter == SeqsUpTo(S, n - 1)
         IN  shorter \cup {Append(s, x) : s \in {t \in shorter : Len(t) = n - 1}, x \in S}

DetectionLists == SeqsUpTo(Detections, MaxDetections)

FrameTimes == 0 .. MaxFrameTime

(***************************************************************************)
(* Python's None, and a present value, for an optional integer.            *)
(***************************************************************************)
None == <<>>

Some(v) == <<v>>

Max(a, b) == IF a >= b THEN a ELSE b

Min(a, b) == IF a <= b THEN a ELSE b

VARIABLES
    tracked_objects,   \* dict id -> object record, in insertion order
    next_object_id,
    first_frame_time,
    missing_threshold,
    last_update        \* the most recent update call: its arguments and what it did

tracker_vars == <<tracked_objects, next_object_id, first_frame_time, missing_threshold>>

VARIABLES
    now,               \* time.time(), in ticks
    frame_queue,       \* Queue(maxsize=1000) of (frame_count, timestamp, frame)
    stop_event,
    key_pressed,       \* the user has pressed q, and waitKey has not returned the key yet
    cap_pc,            \* capture_frames: where the capture thread is
    cap_frame_count,   \* capture_frames: frame_count
    cap_frame,         \* capture_frames: frame, the frame read last
    released,          \* video_feed.release() was called
    main_pc,           \* main: where the main thread is
    start_time,
    end_time,
    last_catchup_time,
    current_time,
    skipped_frames,
    cur,               \* main: frame_count, timestamp, frame (None while unbound)
    main_frame_time,   \* main: frame_time
    main_detections,   \* main: detections, of the frame being processed
    outcome,           \* how the loop of main ended
    detailed_summary,
    branch,            \* history: the branch the current iteration took
    drained,           \* history: frame counts dequeued by the current drain
    processed,         \* history: frame counts handed to tracker.update, latest last
    handled,           \* history: every frame count ever handed to tracker.update
    obj_ids            \* main: per detection looked up last, the obj_id found (line 177)

capture_vars == <<cap_pc, cap_frame_count, cap_frame, released>>

main_vars == <<main_pc, start_time, end_time, last_catchup_time, current_time,
               skipped_frames, cur, main_frame_time, main_detections, outcome,
               detailed_summary, branch, drained, processed, handled, obj_ids>>

pipeline_vars == <<now, frame_queue, stop_event, key_pressed, capture_vars, main_vars>>

VARIABLES
    iou_call           \* the most recent direct call of _iou: its arguments and result

vars == <<tracker_vars, last_update, pipeline_vars, iou_call>>

(***************************************************************************)
(* ObjectTracker.__init__ defaults used by main.                           *)
(***************************************************************************)
iou_threshold == [num |-> 1, den |-> 2]

selected_objects == <<"car", "person">>

(***************************************************************************)
(* A Python dict as an association list in insertion order.                *)
(***************************************************************************)
DictKeys(d) == {d[i].key : i \in 1 .. Len(d)}

DictIndex(d, k) == CHOOSE i \in 1 .. Len(d) : d[i].key = k

DictGet(d, k) == d[DictIndex(d, k)].val

DictSet(d, k, v) ==
    IF k \in DictKeys(d)
    THEN [d EXCEPT ![DictIndex(d, k)] = [key |-> k, val |-> v]]
    ELSE Append(d, [key |-> k, val |-> v])

\* _iou with a fault: the sides of the intersection are not clamped at 0
_iou_Unclamped(box1, box2) ==
    LET xi1 == Max(box1[1], box2[1])
        yi1 == Max(box1[2], box2[2])
        xi2 == Min(box1[3], box2[3])
        yi2 == Min(box1[4], box2[4])
        inter_area == (xi2 - xi1) * (yi2 - yi1)
        box1_area == (box1[3] - box1[1]) * (box1[4] - box1[2])
        box2_area == (box2[3] - box2[1]) * (box2[4] - box2[2])
        union_area == box1_area + box2_area - inter_area
    IN  IF union_area > 0
        THEN [num |-> inter_area, den |-> union_area]
        ELSE [num |-> 0, den |-> 1]

\* _iou with a fault: the intersection is divided by the area of box1
_iou_OverFirst(box1, box2) ==
    LET xi1 == Max(box1[1], box2[1])
        yi1 == Max(box1[2], box2[2])
        xi2 == Min(box1[3], box2[3])
        yi2 == Min(box1[4], box2[4])
        inter_area == Max(xi2 - xi1, 0) * Max(yi2 - yi1, 0)
        box1_area == (box1[3] - box1[1]) * (box1[4] - box1[2])
    IN  IF box1_area > 0
        THEN [num |-> inter_area, den |-> box1_area]
        ELSE [num |-> 0, den |-> 1]

(***************************************************************************)
(* ObjectTracker._iou, as the exact fraction inter_area / union_area.      *)
(***************************************************************************)
_iou(box1, box2) ==
    LET x1 == box1[1]
        y1 == box1[2]
        x2 == box1[3]
        y2 == box1[4]
        x1g == box2[1]
        y1g == box2[2]
        x2g == box2[3]
        y2g == box2[4]
        xi1 == Max(x1, x1g)
        yi1 == Max(y1, y1g)
        xi2 == Min(x2, x2g)
        yi2 == Min(y2, y2g)
        inter_area == Max(xi2 - xi1, 0) * Max(yi2 - yi1, 0)
        box1_area == (x2 - x1) * (y2 - y1)
        box2_area == (x2g - x1g) * (y2g - y1g)
        union_area == box1_area + box2_area - inter_area
    IN  IF union_area > 0
        THEN [num |-> inter_area, den |-> union_area]
        ELSE [num |-> 0, den |-> 1]

\* FracGreater with a fault: p >= q
FracGreater_OrEqual(p, q) == p.num * q.den >= q.num * p.den

\* p > q for fractions with positive denominators
FracGreater(p, q) == p.num * q.den > q.num * p.den

(***************************************************************************)
(* ObjectTracker._find_matching_object                                     *)
(***************************************************************************)
\* IsMatch with a fault: the test forgets that retired objects are out of the matching
IsMatch_IncludingRetired(obj_info, bbox, label) ==
    /\ obj_info.label = label
    /\ FracGreater(_iou(bbox, obj_info.bbox), iou_threshold)

IsMatch(obj_info, bbox, label) ==
    /\ ~obj_info.missing
    /\ obj_info.label = label
    /\ FracGreater(_iou(bbox, obj_info.bbox), iou_threshold)

\* _find_matching_object with a fault: best match (highest IoU) instead of first match
_find_matching_object_Best(objs, bbox, label) ==
    LET hits == {i \in 1 .. Len(objs) : IsMatch(objs[i].val, bbox, label)}
        better(i, j) == \/ FracGreater(_iou(bbox, objs[i].val.bbox), _iou(bbox, objs[j].val.bbox))
                        \/ /\ _iou(bbox, objs[i].val.bbox) = _iou(bbox, objs[j].val.bbox)
                           /\ i <= j
    IN  IF hits = {}
        THEN None
        ELSE Some(objs[CHOOSE i \in hits : \A j \in hits : better(i, j)].key)

_find_matching_object(objs, bbox, label) ==
    LET hits == {i \in 1 .. Len(objs) : IsMatch(objs[i].val, bbox, label)}
    IN  IF hits = {}
        THEN None
        ELSE Some(objs[CHOOSE i \in hits : \A j \in hits : i <= j].key)

(***************************************************************************)
(* ObjectTracker.update                                                    *)
(***************************************************************************)
\* IsSelected with a fault: the allow-list is not consulted
IsSelected_Any(label) == label = label

IsSelected(label) == \E i \in 1 .. Len(selected_objects) : selected_objects[i] = label

\* MatchedInfo with a fault: the object keeps the box it had
MatchedInfo_KeepsBox(obj_info, bbox, frame_time) ==
    [obj_info EXCEPT !.last_seen = frame_time,
                     !.total_time = frame_time - obj_info.first_seen,
                     !.missing_frames = 0]

\* MatchedInfo with a fault: total_time is not recomputed on a match
MatchedInfo_StaleTotal(obj_info, bbox, frame_time) ==
    [obj_info EXCEPT !.bbox = bbox,
                     !.last_seen = frame_time,
                     !.missing_frames = 0]

\* lines 62-66: the matched object takes the detection's current info
MatchedInfo(obj_info, bbox, frame_time) ==
    [obj_info EXCEPT !.bbox = bbox,
                     !.last_seen = frame_time,
                     !.total_time = frame_time - obj_info.first_seen,
                     !.missing_frames = 0]

\* NewObject with a fault: last_seen starts at 0, not at the frame time
NewObject_LastSeenZero(new_id, label, bbox, frame_time) ==
    [id |-> new_id,
     label |-> label,
     bbox |-> bbox,
     first_seen |-> frame_time,
     last_seen |-> 0,
     total_time |-> 0,
     missing_frames |-> 0,
     missing |-> FALSE]

\* lines 72-81: the record of a new object
NewObject(new_id, label, bbox, frame_time) ==
    [id |-> new_id,
     label |-> label,
     bbox |-> bbox,
     first_seen |-> frame_time,
     last_seen |-> frame_time,
     total_time |-> 0,
     missing_frames |-> 0,
     missing |-> FALSE]

\* IncrementId with a fault: a retired object's id is handed out again
IncrementId_Reuse(n) == IF n >= 2 THEN 1 ELSE n + 1

\* line 71
IncrementId(n) == n + 1

\* The objects that pass the test of _find_matching_object for a detection, in
\* dict order, each with its IoU with the detection (an observation of the
\* matching step, kept for the properties; the code does not store it).
Candidates(objs, bbox, label) ==
    LET hits == SelectSeq(objs, LAMBDA e : IsMatch(e.val, bbox, label))
    IN  [i \in 1 .. Len(hits) |-> [key |-> hits[i].key, iou |-> _iou(bbox, hits[i].val.bbox)]]

\* lines 51-82, one iteration of the loop over the detections.  st carries
\* tracked_objects, next_object_id and matched_ids; assoc records, per detection,
\* the id it was associated with (None for a skipped detection), created the ids
\* created by this call in creation order, cands the Candidates of each detection.
ProcessDetection(st, detection, frame_time) ==
    LET bbox == detection.bbox
        label == detection.label
        matched_obj_id == _find_matching_object(st.tracked_objects, bbox, label)
    IN  IF ~IsSelected(label)
        THEN [st EXCEPT !.assoc = Append(@, None),
                        !.cands = Append(@, <<>>)]
        ELSE IF matched_obj_id # None
        THEN LET id == matched_obj_id[1]
                 obj_info == DictGet(st.tracked_objects, id)
             IN  [st EXCEPT !.tracked_objects =
                                DictSet(@, id, MatchedInfo(obj_info, bbox, frame_time)),
                            !.matched_ids = @ \cup {id},
                            !.assoc = Append(@, Some(id)),
                            !.cands = Append(@, Candidates(st.tracked_objects, bbox, label))]
        ELSE LET new_id == st.next_object_id
             IN  [st EXCEPT !.next_object_id = IncrementId(new_id),
                            !.tracked_objects =
                                DictSet(@, new_id, NewObject(new_id, label, bbox, frame_time)),
                            !.matched_ids = @ \cup {new_id},
                            !.assoc = Append(@, Some(new_id)),
                            !.cands = Append(@, Candidates(st.tracked_objects, bbox, label)),
                            !.created = Append(@, new_id)]

RECURSIVE ProcessDetections(_, _, _, _)
ProcessDetections(st, detections, i, frame_time) ==
    IF i > Len(detections)
    THEN st
    ELSE ProcessDetections(ProcessDetection(st, detections[i], frame_time),
                           detections, i + 1, frame_time)

\* MissingStep with a fault: the threshold test is strict, retiring one update late
MissingStep_Late(obj_id, obj_info, matched_ids, threshold) ==
    IF obj_id \notin matched_ids /\ ~obj_info.missing
    THEN LET counted == [obj_info EXCEPT !.missing_frames = @ + 1]
         IN  IF counted.missing_frames > threshold
             THEN [counted EXCEPT !.missing = TRUE]
             ELSE counted
    ELSE IF obj_id \in matched_ids /\ obj_info.missing_frames > 0
    THEN [obj_info EXCEPT !.missing_frames = 0]
    ELSE obj_info

\* MissingStep with a fault: the missing flag is not tested, so that the frames
\* of a retired object are counted on
MissingStep_CountsRetired(obj_id, obj_info, matched_ids, threshold) ==
    IF obj_id \notin matched_ids
    THEN LET counted == [obj_info EXCEPT !.missing_frames = @ + 1]
         IN  IF counted.missing_frames >= threshold
             THEN [counted EXCEPT !.missing = TRUE]
             ELSE counted
    ELSE IF obj_id \in matched_ids /\ obj_info.missing_frames > 0
    THEN [obj_info EXCEPT !.missing_frames = 0]
    ELSE obj_info

\* MissingStep with a fault: a missed frame is counted twice
MissingStep_ByTwo(obj_id, obj_info, matched_ids, threshold) ==
    IF obj_id \notin matched_ids /\ ~obj_info.missing
    THEN LET counted == [obj_info EXCEPT !.missing_frames = @ + 2]
         IN  IF counted.missing_frames >= threshold
             THEN [counted EXCEPT !.missing = TRUE]
             ELSE counted
    ELSE IF obj_id \in matched_ids /\ obj_info.missing_frames > 0
    THEN [obj_info EXCEPT !.missing_frames = 0]
    ELSE obj_info

\* MissingStep with a fault: matched_ids is not consulted, so that an object
\* seen in this frame is counted as missing too
MissingStep_IgnoresMatches(obj_id, obj_info, matched_ids, threshold) ==
    IF ~obj_info.missing
    THEN LET counted == [obj_info EXCEPT !.missing_frames = @ + 1]
         IN  IF counted.missing_frames >= threshold
             THEN [counted EXCEPT !.missing = TRUE]
             ELSE counted
    ELSE obj_info

\* lines 86-91, for one entry of tracked_objects
MissingStep(obj_id, obj_info, matched_ids, threshold) ==
    IF obj_id \notin matched_ids /\ ~obj_info.missing
    THEN LET counted == [obj_info EXCEPT !.missing_frames = @ + 1]
         IN  IF counted.missing_frames >= threshold
             THEN [counted EXCEPT !.missing = TRUE]
             ELSE counted
    ELSE IF obj_id \in matched_ids /\ obj_info.missing_frames > 0
    THEN [obj_info EXCEPT !.missing_frames = 0]
    ELSE obj_info

\* MissingPass with a fault: an object is deleted when it is retired
MissingPass_DropsRetired(objs, matched_ids, threshold) ==
    SelectSeq([i \in 1 .. Len(objs) |->
                  [key |-> objs[i].key,
                   val |-> MissingStep(objs[i].key, objs[i].val, matched_ids, threshold)]],
              LAMBDA e : ~e.val.missing)

\* lines 85-91
MissingPass(objs, matched_ids, threshold) ==
    [i \in 1 .. Len(objs) |->
        [key |-> objs[i].key,
         val |-> MissingStep(objs[i].key, objs[i].val, matched_ids, threshold)]]

\* lines 42-91: the tracker after update(detections, frame_time), with what the
\* call did (matched_ids, assoc, cands, created)
update(objs, nid, fft, threshold, detections, frame_time) ==
    LET st0 == [tracked_objects |-> objs,
                next_object_id |-> nid,
                matched_ids |-> {},
                assoc |-> <<>>,
                cands |-> <<>>,
                created |-> <<>>]
        st == ProcessDetections(st0, detections, 1, frame_time)
    IN  [tracked_objects |-> MissingPass(st.tracked_objects, st.matched_ids, threshold),
         next_object_id |-> st.next_object_id,
         first_frame_time |-> IF fft = None THEN Some(frame_time) ELSE fft,
         matched_ids |-> st.matched_ids,
         assoc |-> st.assoc,
         cands |-> st.cands,
         created |-> st.created]

(***************************************************************************)
(* The tracker alone, driven by arbitrary update calls.                    *)
(***************************************************************************)
NoCall == [detections |-> <<>>, frame_time |-> 0, assoc |-> <<>>,
           cands |-> <<>>, matched_ids |-> {}, created |-> <<>>]

\* lines 28-33
NewTracker(threshold) ==
    /\ tracked_objects = <<>>
    /\ next_object_id = 1
    /\ first_frame_time = None
    /\ missing_threshold = threshold
    /\ last_update = NoCall

\* the state of a pipeline that is not run
PipelineIdle ==
    /\ now = 0
    /\ frame_queue = <<>>
    /\ stop_event = FALSE
    /\ key_pressed = FALSE
    /\ cap_pc = "idle"
    /\ cap_frame_count = 0
    /\ cap_frame = None
    /\ released = FALSE
    /\ main_pc = "idle"
    /\ start_time = 0
    /\ end_time = 0
    /\ last_catchup_time = 0
    /\ current_time = 0
    /\ skipped_frames = 0
    /\ cur = None
    /\ main_frame_time = 0
    /\ main_detections = <<>>
    /\ outcome = "running"
    /\ detailed_summary = None
    /\ branch = "none"
    /\ drained = <<>>
    /\ processed = <<>>
    /\ handled = {}
    /\ obj_ids = <<>>

TrackerInit ==
    /\ \E threshold \in 1 .. MaxMissingThreshold : NewTracker(threshold)
    /\ PipelineIdle
    /\ iou_call = None

Update(dets, ftime) ==
    \E r \in {update(tracked_objects, next_object_id, first_frame_time,
                     missing_threshold, dets, ftime)} :
        /\ Len(r.tracked_objects) <= MaxObjects
        /\ tracked_objects' = r.tracked_objects
        /\ next_object_id' = r.next_object_id
        /\ first_frame_time' = r.first_frame_time
        /\ last_update' = [detections |-> dets,
                           frame_time |-> ftime,
                           assoc |-> r.assoc,
                           cands |-> r.cands,
                           matched_ids |-> r.matched_ids,
                           created |-> r.created]
        /\ UNCHANGED missing_threshold

\* Frame times arrive as main passes them: the capture timestamps of successive
\* frames, which never decrease.
TrackerUpdate ==
    /\ \E dets \in DetectionLists :
          \E ftime \in {t \in FrameTimes : t >= last_update.frame_time} :
              Update(dets, ftime)
    /\ UNCHANGED <<pipeline_vars, iou_call>>

Init == TrackerInit

Next == TrackerUpdate

Spec == Init /\ [][Next]_vars

(***************************************************************************)
(* _iou alone, called with two boxes as perform_object_detection builds    *)
(* them: (xmin, ymin, xmax, ymax) with integer coordinates, xmin <= xmax    *)
(* and ymin <= ymax.                                                       *)
(***************************************************************************)
Coords == 0 .. MaxCoord

GridBoxes ==
    {<<x1, y1, x2, y2>> : x1 \in Coords, y1 \in Coords, x2 \in Coords, y2 \in Coords}

WellFormed(box) == box[1] <= box[3] /\ box[2] <= box[4]

IouInit ==
    /\ \E threshold \in 1 .. MaxMissingThreshold : NewTracker(threshold)
    /\ PipelineIdle
    /\ \E box1, box2 \in {b \in GridBoxes : WellFormed(b)} :
          iou_call = [box1 |-> box1, box2 |-> box2, result |-> None]

IouCall ==
    /\ iou_call.result = None
    /\ iou_call' = [iou_call EXCEPT !.result = Some(_iou(iou_call.box1, iou_call.box2))]
    /\ UNCHANGED <<tracker_vars, last_update, pipeline_vars>>

SpecIou == IouInit /\ [][IouCall]_vars

(***************************************************************************)
(* The lookups main makes after an update to label what it draws (lines    *)
(* 174-177): one call of _find_matching_object per detection.              *)
(***************************************************************************)
Resolve(objs, detections) ==
    [j \in 1 .. Len(detections) |->
        [bbox |-> detections[j].bbox,
         label |-> detections[j].label,
         obj_id |-> _find_matching_object(objs, detections[j].bbox, detections[j].label)]]

(***************************************************************************)
(* The tracker alone, used as main uses it: an update, then the lookups    *)
(* for its detections, then the next update; and, after the rendering, a   *)
(* lookup of any box and label, which changes nothing, so that the         *)
(* rendering is made again before the next update.                         *)
(***************************************************************************)
QueryDetections ==
    {[bbox |-> BoxA, label |-> "car"],
     [bbox |-> BoxB, label |-> "car"],
     [bbox |-> BoxD, label |-> "car"],
     [bbox |-> BoxA, label |-> "bird"]}

\* lines 174-177 have run for the detections of the last update
Rendered == obj_ids = Resolve(tracked_objects, last_update.detections)

\* line 171, once the frame before is rendered
QueryUpdate ==
    /\ Rendered
    /\ \E dets \in SeqsUpTo(QueryDetections, MaxDetections) :
          \E ftime \in {t \in FrameTimes : t >= last_update.frame_time} :
              Update(dets, ftime)
    /\ UNCHANGED <<pipeline_vars, iou_call>>

\* lines 174-177
TrackerRender ==
    /\ obj_ids' = Resolve(tracked_objects, last_update.detections)
    /\ UNCHANGED <<tracker_vars, last_update, iou_call, now, frame_queue, stop_event,
                   key_pressed, capture_vars, main_pc, start_time, end_time,
                   last_catchup_time, current_time, skipped_frames, cur,
                   main_frame_time, main_detections, outcome, detailed_summary,
                   branch, drained, processed, handled>>

\* TrackerQuery with a fault: the lookup returns the candidate of highest IoU
TrackerQuery_Best ==
    /\ Rendered
    /\ \E bbox \in Boxes, label \in Labels :
          obj_ids' = <<[bbox |-> bbox, label |-> label,
                       obj_id |-> _find_matching_object_Best(tracked_objects, bbox, label)]>>
    /\ UNCHANGED <<tracker_vars, last_update, iou_call, now, frame_queue, stop_event,
                   key_pressed, capture_vars, main_pc, start_time, end_time,
                   last_catchup_time, current_time, skipped_frames, cur,
                   main_frame_time, main_detections, outcome, detailed_summary,
                   branch, drained, processed, handled>>

\* a call of _find_matching_object(bbox, label), lines 94-98
TrackerQuery ==
    /\ Rendered
    /\ \E bbox \in Boxes, label \in Labels :
          obj_ids' = Resolve(tracked_objects, <<[bbox |-> bbox, label |-> label]>>)
    /\ UNCHANGED <<tracker_vars, last_update, iou_call, now, frame_queue, stop_event,
                   key_pressed, capture_vars, main_pc, start_time, end_time,
                   last_catchup_time, current_time, skipped_frames, cur,
                   main_frame_time, main_detections, outcome, detailed_summary,
                   branch, drained, processed, handled>>

QueryNext == QueryUpdate \/ TrackerRender \/ TrackerQuery

SpecQuery == TrackerInit /\ [][QueryNext]_vars

(***************************************************************************)
(* The tracker alone, driven by update calls whose frame times come in any *)
(* order: update takes frame_time as it is given.                          *)
(***************************************************************************)
AnyTimeDetections ==
    {[bbox |-> BoxA, label |-> "car"],
     [bbox |-> BoxE, label |-> "car"],
     [bbox |-> BoxA, label |-> "person"]}

AnyTimeUpdate ==
    /\ \E dets \in SeqsUpTo(AnyTimeDetections, MaxDetections) :
          \E ftime \in FrameTimes :
              Update(dets, ftime)
    /\ UNCHANGED <<pipeline_vars, iou_call>>

SpecAnyTimes == TrackerInit /\ [][AnyTimeUpdate]_vars

(***************************************************************************)
(* ObjectTracker.get_detailed_summary: a dict label -> list of entries, in *)
(* the order the labels and the objects are met.                           *)
(***************************************************************************)
\* SummaryEntry with a fault: the stored times are reported as they are
SummaryEntry_Absolute(obj_info, fft) ==
    [id |-> obj_info.id,
     first_seen |-> obj_info.first_seen,
     last_seen |-> obj_info.last_seen,
     total_time |-> obj_info.total_time,
     missing_frames |-> obj_info.missing_frames,
     missing |-> obj_info.missing]

SummaryEntry(obj_info, fft) ==
    [id |-> obj_info.id,
     first_seen |-> obj_info.first_seen - fft[1],
     last_seen |-> obj_info.last_seen - fft[1],
     total_time |-> obj_info.total_time,
     missing_frames |-> obj_info.missing_frames,
     missing |-> obj_info.missing]

RECURSIVE SummaryLoop(_, _, _, _)
SummaryLoop(summary, objs, i, fft) ==
    IF i > Len(objs)
    THEN summary
    ELSE LET obj_info == objs[i].val
             label == obj_info.label
             started == IF label \in DictKeys(summary)
                        THEN summary
                        ELSE DictSet(summary, label, <<>>)
             listed == Append(DictGet(started, label), SummaryEntry(obj_info, fft))
         IN  SummaryLoop(DictSet(started, label, listed), objs, i + 1, fft)

\* get_detailed_summary with a fault: retired objects are left out
get_detailed_summary_ActiveOnly(objs, fft) ==
    SummaryLoop(<<>>, SelectSeq(objs, LAMBDA e : ~e.val.missing), 1, fft)

get_detailed_summary(objs, fft) == SummaryLoop(<<>>, objs, 1, fft)

(***************************************************************************)
(* The tracker alone, with the summary taken as main takes it: after the   *)
(* updates of the session (line 214), any number of times.                 *)
(***************************************************************************)
TrackerSummary ==
    /\ detailed_summary' = Some(get_detailed_summary(tracked_objects, first_frame_time))
    /\ UNCHANGED <<tracker_vars, last_update, iou_call, now, frame_queue, stop_event, key_pressed,
                   capture_vars, main_pc, start_time, end_time, last_catchup_time,
                   current_time, skipped_frames, cur, main_frame_time, main_detections,
                   outcome, branch, drained, processed, handled, obj_ids>>

SessionUpdate ==
    /\ detailed_summary = None
    /\ TrackerUpdate

SummaryNext == SessionUpdate \/ TrackerSummary

SpecSummary == TrackerInit /\ [][SummaryNext]_vars

(***************************************************************************)
(* The tracker alone, driven through one scenario: an object of a selected *)
(* label is detected at a fixed box from frame time 0 on, then stays away  *)
(* until it is retired, then a detection of the label comes again; the     *)
(* summary is taken after that.  Frames may also show things that are not  *)
(* tracked.                                                                *)
(***************************************************************************)
ScenarioTimes == 0 .. MaxScenarioTime

\* a detection of a label outside selected_objects
Untracked == [bbox |-> BoxA, label |-> "bird"]

\* what a frame shows besides the object: nothing, or something untracked
WithNoise(dets) == {dets, dets \o <<Untracked>>, <<Untracked>> \o dets}

LaterTimes == {t \in ScenarioTimes : t > last_update.frame_time}

\* the first frame, at time 0: the object appears
ScenarioFirst ==
    /\ first_frame_time = None
    /\ \E label \in {l \in Labels : IsSelected(l)}, bbox \in Boxes \ {BoxZ} :
          \E dets \in WithNoise(<<[bbox |-> bbox, label |-> label]>>) :
              Update(dets, 0)
    /\ UNCHANGED <<pipeline_vars, iou_call>>

\* a later frame that shows the object where it was, no frame without it so far
ScenarioPresent ==
    /\ Len(tracked_objects) = 1
    /\ tracked_objects[1].val.missing_frames = 0
    /\ \E ftime \in LaterTimes :
          \E dets \in WithNoise(<<[bbox |-> tracked_objects[1].val.bbox,
                                    label |-> tracked_objects[1].val.label]>>) :
              Update(dets, ftime)
    /\ UNCHANGED <<pipeline_vars, iou_call>>

\* a frame without a detection of the label
ScenarioAbsent ==
    /\ Len(tracked_objects) = 1
    /\ \E ftime \in LaterTimes :
          \E dets \in {<<>>, <<Untracked>>} :
              Update(dets, ftime)
    /\ UNCHANGED <<pipeline_vars, iou_call>>

\* after missing_threshold frames or more without it, a detection of the label
ScenarioAppear ==
    /\ Len(tracked_objects) = 1
    /\ tracked_objects[1].val.missing_frames >= missing_threshold
    /\ \E ftime \in LaterTimes, bbox \in Boxes \ {BoxZ} :
          \E dets \in WithNoise(<<[bbox |-> bbox,
                                    label |-> tracked_objects[1].val.label]>>) :
              Update(dets, ftime)
    /\ UNCHANGED <<pipeline_vars, iou_call>>

\* the final summary
ScenarioSummary ==
    /\ last_update.created # <<>>
    /\ Len(tracked_objects) = 2
    /\ TrackerSummary

ScenarioNext ==
    \/ ScenarioFirst
    \/ ScenarioPresent
    \/ ScenarioAbsent
    \/ ScenarioAppear
    \/ ScenarioSummary

SpecScenario == TrackerInit /\ [][ScenarioNext]_vars

(***************************************************************************)
(* The pipeline of main: the capture thread and the processing loop.       *)
(***************************************************************************)
\* ObjectTracker(iou_threshold=0.5, selected_objects=selected_objects) takes the
\* default missing_threshold
DefaultMissingThreshold == 20

\* 0.5 seconds
catchup_interval == TicksPerSecond \div 2

\* detection_duration, in seconds
Durations == {0, 1}

\* What a frame shows: the detections perform_object_detection returns for it.
\* The source of this pipeline films one car that does not move.
FrameContents == {<<[bbox |-> BoxA, label |-> "car"]>>}

\* lines 130-134 have not run yet; the capture thread is started (line 127)
PipelineInit ==
    /\ NewTracker(DefaultMissingThreshold)
    /\ now = 0
    /\ frame_queue = <<>>
    /\ stop_event = FALSE
    /\ key_pressed = FALSE
    /\ cap_pc = "loop"
    /\ cap_frame_count = 0
    /\ cap_frame = None
    /\ released = FALSE
    /\ main_pc = "start"
    /\ start_time = 0
    /\ end_time = 0
    /\ last_catchup_time = 0
    /\ current_time = 0
    /\ skipped_frames = 0
    /\ cur = None
    /\ main_frame_time = 0
    /\ main_detections = <<>>
    /\ outcome = "running"
    /\ detailed_summary = None
    /\ branch = "none"
    /\ drained = <<>>
    /\ processed = <<>>
    /\ handled = {}
    /\ obj_ids = <<>>
    /\ iou_call = None

tracker_state == <<tracker_vars, last_update>>

\* time passes
Tick ==
    /\ now < MaxClock
    /\ main_pc # "done"
    /\ now' = now + 1
    /\ UNCHANGED <<tracker_state, iou_call, frame_queue, stop_event, key_pressed, capture_vars, main_vars>>

(***************************************************************************)
(* capture_frames (lines 66-82)                                            *)
(***************************************************************************)
\* line 68
CaptureLoop ==
    /\ cap_pc = "loop"
    /\ cap_pc' = IF stop_event THEN "release" ELSE "read"
    /\ UNCHANGED <<tracker_state, iou_call, now, frame_queue, stop_event, key_pressed, cap_frame_count,
                   cap_frame, released, main_vars>>

\* lines 69-71: the source delivers a frame, or the read fails
CaptureRead ==
    /\ cap_pc = "read"
    /\ \/ /\ cap_frame_count < MaxFrames
          /\ \E frame \in FrameContents : cap_frame' = Some(frame)
          /\ cap_pc' = "put"
       \/ /\ cap_pc' = "release"
          /\ UNCHANGED cap_frame
    /\ UNCHANGED <<tracker_state, iou_call, now, frame_queue, stop_event, key_pressed, cap_frame_count,
                   released, main_vars>>

\* CapturePut with a fault: the frame is pushed under the count of the frame before it
CapturePut_NoCount ==
    /\ cap_pc = "put"
    /\ Len(frame_queue) < HardCap
    /\ cap_frame_count' = cap_frame_count + 1
    /\ frame_queue' = Append(frame_queue, [frame_count |-> cap_frame_count,
                                           timestamp |-> now,
                                           frame |-> cap_frame[1]])
    /\ cap_pc' = "qsize"
    /\ UNCHANGED <<tracker_state, iou_call, now, stop_event, key_pressed, cap_frame, released, main_vars>>

\* lines 73-74: put blocks while the queue holds maxsize entries
CapturePut ==
    /\ cap_pc = "put"
    /\ Len(frame_queue) < HardCap
    /\ cap_frame_count' = cap_frame_count + 1
    /\ frame_queue' = Append(frame_queue, [frame_count |-> cap_frame_count + 1,
                                           timestamp |-> now,
                                           frame |-> cap_frame[1]])
    /\ cap_pc' = "qsize"
    /\ UNCHANGED <<tracker_state, iou_call, now, stop_event, key_pressed, cap_frame, released, main_vars>>

\* NeedsEviction with a fault: the cap is tested one entry too late
NeedsEviction_OffByOne(qsize) == qsize > SoftCap + 1

\* line 77
NeedsEviction(qsize) == qsize > SoftCap

CaptureQsize ==
    /\ cap_pc = "qsize"
    /\ cap_pc' = IF NeedsEviction(Len(frame_queue)) THEN "evict" ELSE "loop"
    /\ UNCHANGED <<tracker_state, iou_call, now, frame_queue, stop_event, key_pressed, cap_frame_count,
                   cap_frame, released, main_vars>>

\* lines 78-81: get_nowait; on an empty queue it raises queue.Empty, and the
\* handler's "Queue.Empty" (Queue is the class queue.Queue, which has no such
\* attribute) raises AttributeError, which ends the thread before line 82
CaptureEvict ==
    /\ cap_pc = "evict"
    /\ IF frame_queue # <<>>
       THEN /\ frame_queue' = Tail(frame_queue)
            /\ cap_pc' = "loop"
       ELSE /\ cap_pc' = "crashed"
            /\ UNCHANGED frame_queue
    /\ UNCHANGED <<tracker_state, iou_call, now, stop_event, key_pressed, cap_frame_count, cap_frame,
                   released, main_vars>>

\* line 82
CaptureRelease ==
    /\ cap_pc = "release"
    /\ released' = TRUE
    /\ cap_pc' = "done"
    /\ UNCHANGED <<tracker_state, iou_call, now, frame_queue, stop_event, key_pressed, cap_frame_count,
                   cap_frame, main_vars>>

Capture ==
    \/ CaptureLoop
    \/ CaptureRead
    \/ CapturePut
    \/ CaptureQsize
    \/ CaptureEvict
    \/ CaptureRelease

(***************************************************************************)
(* main (lines 130-229)                                                    *)
(***************************************************************************)
\* lines 130-137
MainStart ==
    /\ main_pc = "start"
    /\ \E detection_duration \in Durations :
          end_time' = now + detection_duration * TicksPerSecond
    /\ start_time' = now
    /\ last_catchup_time' = now
    /\ main_pc' = "while"
    /\ UNCHANGED <<tracker_state, iou_call, now, frame_queue, stop_event, key_pressed, capture_vars,
                   current_time, skipped_frames, cur, main_frame_time, main_detections,
                   outcome, detailed_summary, branch, drained, processed,
                   handled, obj_ids>>

\* MainWhile with a fault: the loop also ends when the capture loop has finished
\* and the queue is empty
MainWhile_StopsWithSource ==
    /\ main_pc = "while"
    /\ \E goes_on \in {now < end_time /\ ~(cap_pc = "done" /\ frame_queue = <<>>)} :
          /\ main_pc' = IF goes_on THEN "time" ELSE "finally"
          /\ outcome' = IF goes_on THEN outcome ELSE "deadline"
    /\ UNCHANGED <<tracker_state, iou_call, now, frame_queue, stop_event, key_pressed, capture_vars,
                   start_time, end_time, last_catchup_time, current_time,
                   skipped_frames, cur, main_frame_time, main_detections,
                   detailed_summary, branch, drained, processed,
                   handled, obj_ids>>

\* line 142
MainWhile ==
    /\ main_pc = "while"
    /\ main_pc' = IF now < end_time THEN "time" ELSE "finally"
    /\ outcome' = IF now < end_time THEN outcome ELSE "deadline"
    /\ UNCHANGED <<tracker_state, iou_call, now, frame_queue, stop_event, key_pressed, capture_vars,
                   start_time, end_time, last_catchup_time, current_time,
                   skipped_frames, cur, main_frame_time, main_detections,
                   detailed_summary, branch, drained, processed,
                   handled, obj_ids>>

\* line 146
CatchupDue(t, last) == t - last >= catchup_interval

\* lines 143-149 and 158
MainTime ==
    /\ main_pc = "time"
    /\ current_time' = now
    /\ IF CatchupDue(now, last_catchup_time)
       THEN /\ skipped_frames' = 0
            /\ branch' = "catchup"
            /\ main_pc' = "drain_test"
       ELSE /\ branch' = "normal"
            /\ main_pc' = "normal_test"
            /\ UNCHANGED skipped_frames
    /\ drained' = <<>>
    /\ UNCHANGED <<tracker_state, iou_call, now, frame_queue, stop_event, key_pressed, capture_vars,
                   start_time, end_time, last_catchup_time, cur, main_frame_time,
                   main_detections, outcome, detailed_summary, processed,
                   handled, obj_ids>>

\* line 150
MainDrainTest ==
    /\ main_pc = "drain_test"
    /\ main_pc' = IF frame_queue # <<>> THEN "drain_get" ELSE "drain_done"
    /\ UNCHANGED <<tracker_state, iou_call, now, frame_queue, stop_event, key_pressed, capture_vars,
                   start_time, end_time, last_catchup_time, current_time,
                   skipped_frames, cur, main_frame_time, main_detections, outcome,
                   detailed_summary, branch, drained, processed,
                   handled, obj_ids>>

\* MainDrainGet with a fault: the drain keeps the first frame it dequeued, not the last
MainDrainGet_KeepFirst ==
    /\ main_pc = "drain_get"
    /\ frame_queue # <<>>
    /\ cur' = IF skipped_frames = 0 THEN Some(Head(frame_queue)) ELSE cur
    /\ frame_queue' = Tail(frame_queue)
    /\ skipped_frames' = skipped_frames + 1
    /\ drained' = Append(drained, Head(frame_queue).frame_count)
    /\ main_pc' = "drain_test"
    /\ UNCHANGED <<tracker_state, iou_call, now, stop_event, key_pressed, capture_vars, start_time, end_time,
                   last_catchup_time, current_time, main_frame_time, main_detections,
                   outcome, detailed_summary, branch, processed, handled, obj_ids>>

\* lines 151-152: get blocks while the queue is empty
MainDrainGet ==
    /\ main_pc = "drain_get"
    /\ frame_queue # <<>>
    /\ cur' = Some(Head(frame_queue))
    /\ frame_queue' = Tail(frame_queue)
    /\ skipped_frames' = skipped_frames + 1
    /\ drained' = Append(drained, Head(frame_queue).frame_count)
    /\ main_pc' = "drain_test"
    /\ UNCHANGED <<tracker_state, iou_call, now, stop_event, key_pressed, capture_vars, start_time, end_time,
                   last_catchup_time, current_time, main_frame_time, main_detections,
                   outcome, detailed_summary, branch, processed,
                   handled, obj_ids>>

\* lines 154-155, then on to line 164
MainDrainDone ==
    /\ main_pc = "drain_done"
    /\ last_catchup_time' = IF skipped_frames > 0 THEN current_time ELSE last_catchup_time
    /\ main_pc' = "frame_time"
    /\ UNCHANGED <<tracker_state, iou_call, now, frame_queue, stop_event, key_pressed, capture_vars,
                   start_time, end_time, current_time, skipped_frames, cur,
                   main_frame_time, main_detections, outcome, detailed_summary,
                   branch, drained, processed,
                   handled, obj_ids>>

\* lines 159-161: on an empty queue sleep and continue
MainNormalTest ==
    /\ main_pc = "normal_test"
    /\ main_pc' = IF frame_queue = <<>> THEN "while" ELSE "normal_get"
    /\ UNCHANGED <<tracker_state, iou_call, now, frame_queue, stop_event, key_pressed, capture_vars,
                   start_time, end_time, last_catchup_time, current_time,
                   skipped_frames, cur, main_frame_time, main_detections, outcome,
                   detailed_summary, branch, drained, processed,
                   handled, obj_ids>>

\* line 162: get blocks while the queue is empty
MainNormalGet ==
    /\ main_pc = "normal_get"
    /\ frame_queue # <<>>
    /\ cur' = Some(Head(frame_queue))
    /\ frame_queue' = Tail(frame_queue)
    /\ main_pc' = "frame_time"
    /\ UNCHANGED <<tracker_state, iou_call, now, stop_event, key_pressed, capture_vars, start_time, end_time,
                   last_catchup_time, current_time, skipped_frames, main_frame_time,
                   main_detections, outcome, detailed_summary, branch, drained,
                   processed,
                   handled, obj_ids>>

\* lines 164-165: timestamp is unbound when no frame was ever dequeued, and
\* reading it raises UnboundLocalError, caught at line 201
MainFrameTime ==
    /\ main_pc = "frame_time"
    /\ IF cur = None
       THEN /\ outcome' = "exception"
            /\ main_pc' = "finally"
            /\ UNCHANGED main_frame_time
       ELSE /\ main_frame_time' = cur[1].timestamp - start_time
            /\ main_pc' = "detect"
            /\ UNCHANGED outcome
    /\ UNCHANGED <<tracker_state, iou_call, now, frame_queue, stop_event, key_pressed, capture_vars,
                   start_time, end_time, last_catchup_time, current_time,
                   skipped_frames, cur, main_detections, detailed_summary, branch,
                   drained, processed,
                   handled, obj_ids>>

\* MainDetect with a fault: a failure of the detector is reported, and the frame
\* goes on to the tracker with no detections
MainDetect_GoesOn ==
    /\ main_pc = "detect"
    /\ \/ /\ main_detections' = cur[1].frame
          /\ main_pc' = "update"
          /\ UNCHANGED outcome
       \/ /\ outcome' = "exception"
          /\ main_pc' = "update"
          /\ main_detections' = <<>>
    /\ UNCHANGED <<tracker_state, iou_call, now, frame_queue, stop_event, key_pressed, capture_vars,
                   start_time, end_time, last_catchup_time, current_time,
                   skipped_frames, cur, main_frame_time, detailed_summary, branch,
                   drained, processed,
                   handled, obj_ids>>

\* line 168: the detector returns the detections of the frame, or raises
MainDetect ==
    /\ main_pc = "detect"
    /\ \/ /\ main_detections' = cur[1].frame
          /\ main_pc' = "update"
          /\ UNCHANGED outcome
       \/ /\ outcome' = "exception"
          /\ main_pc' = "finally"
          /\ UNCHANGED main_detections
    /\ UNCHANGED <<tracker_state, iou_call, now, frame_queue, stop_event, key_pressed, capture_vars,
                   start_time, end_time, last_catchup_time, current_time,
                   skipped_frames, cur, main_frame_time, detailed_summary, branch,
                   drained, processed,
                   handled, obj_ids>>

Remember(history, x) ==
    IF Len(history) < MaxProcessed THEN Append(history, x) ELSE Append(Tail(history), x)

\* line 171
MainUpdate ==
    /\ main_pc = "update"
    /\ Update(main_detections, main_frame_time)
    /\ processed' = Remember(processed, cur[1].frame_count)
    /\ handled' = handled \cup {cur[1].frame_count}
    /\ main_pc' = "render"
    /\ UNCHANGED <<iou_call, now, frame_queue, stop_event, key_pressed, capture_vars, start_time, end_time,
                   last_catchup_time, current_time, skipped_frames, cur,
                   main_frame_time, main_detections, outcome, detailed_summary,
                   branch, drained, obj_ids>>

\* lines 174-197: the overlays are drawn and shown; waitKey returns the key the
\* user has pressed, if any
MainRender ==
    /\ main_pc = "render"
    /\ obj_ids' = Resolve(tracked_objects, main_detections)
    /\ IF key_pressed
       THEN /\ outcome' = "quit"
            /\ main_pc' = "finally"
            /\ key_pressed' = FALSE
       ELSE /\ main_pc' = "while"
            /\ UNCHANGED <<outcome, key_pressed>>
    /\ UNCHANGED <<tracker_state, iou_call, now, frame_queue, stop_event, capture_vars,
                   start_time, end_time, last_catchup_time, current_time,
                   skipped_frames, cur, main_frame_time, main_detections,
                   detailed_summary, branch, drained, processed,
                   handled>>

InTry == {"while", "time", "drain_test", "drain_get", "drain_done", "normal_test",
          "normal_get", "frame_time", "detect", "update", "render"}

\* lines 199-200: Ctrl-C anywhere in the try block
MainKeyboardInterrupt ==
    /\ main_pc \in InTry
    /\ outcome' = "interrupt"
    /\ main_pc' = "finally"
    /\ UNCHANGED <<tracker_state, iou_call, now, frame_queue, stop_event, key_pressed, capture_vars,
                   start_time, end_time, last_catchup_time, current_time,
                   skipped_frames, cur, main_frame_time, main_detections,
                   detailed_summary, branch, drained, processed,
                   handled, obj_ids>>

\* lines 207-208
MainFinally ==
    /\ main_pc = "finally"
    /\ stop_event' = TRUE
    /\ main_pc' = "join"
    /\ UNCHANGED <<tracker_state, iou_call, now, frame_queue, key_pressed, capture_vars, start_time, end_time,
                   last_catchup_time, current_time, skipped_frames, cur,
                   main_frame_time, main_detections, outcome, detailed_summary,
                   branch, drained, processed,
                   handled, obj_ids>>

\* MainJoin with a fault: the join does not wait for the capture thread
MainJoin_NoWait ==
    /\ main_pc = "join"
    /\ main_pc' = "summary"
    /\ UNCHANGED <<tracker_state, iou_call, now, frame_queue, stop_event, key_pressed, capture_vars,
                   start_time, end_time, last_catchup_time, current_time,
                   skipped_frames, cur, main_frame_time, main_detections, outcome,
                   detailed_summary, branch, drained, processed,
                   handled, obj_ids>>

\* line 209: join returns once the capture thread has ended
MainJoin ==
    /\ main_pc = "join"
    /\ cap_pc \in {"done", "crashed"}
    /\ main_pc' = "summary"
    /\ UNCHANGED <<tracker_state, iou_call, now, frame_queue, stop_event, key_pressed, capture_vars,
                   start_time, end_time, last_catchup_time, current_time,
                   skipped_frames, cur, main_frame_time, main_detections, outcome,
                   detailed_summary, branch, drained, processed,
                   handled, obj_ids>>

\* lines 213-225
MainSummary ==
    /\ main_pc = "summary"
    /\ detailed_summary' = Some(get_detailed_summary(tracked_objects, first_frame_time))
    /\ main_pc' = "report"
    /\ UNCHANGED <<tracker_state, iou_call, now, frame_queue, stop_event, key_pressed, capture_vars,
                   start_time, end_time, last_catchup_time, current_time,
                   skipped_frames, cur, main_frame_time, main_detections, outcome,
                   branch, drained, processed,
                   handled, obj_ids>>

\* lines 227-229: frame_count is unbound when no frame was ever dequeued
MainReport ==
    /\ main_pc = "report"
    /\ main_pc' = IF cur = None THEN "raised" ELSE "done"
    /\ UNCHANGED <<tracker_state, iou_call, now, frame_queue, stop_event, key_pressed, capture_vars,
                   start_time, end_time, last_catchup_time, current_time,
                   skipped_frames, cur, main_frame_time, main_detections, outcome,
                   detailed_summary, branch, drained, processed,
                   handled, obj_ids>>

Main ==
    \/ MainStart
    \/ MainWhile
    \/ MainTime
    \/ MainDrainTest
    \/ MainDrainGet
    \/ MainDrainDone
    \/ MainNormalTest
    \/ MainNormalGet
    \/ MainFrameTime
    \/ MainDetect
    \/ MainUpdate
    \/ MainRender
    \/ MainKeyboardInterrupt
    \/ MainFinally
    \/ MainJoin
    \/ MainSummary
    \/ MainReport

\* the user presses q in the window that line 185 has opened
UserPressesQ ==
    /\ main_pc \in InTry
    /\ handled # {}
    /\ ~key_pressed
    /\ key_pressed' = TRUE
    /\ UNCHANGED <<tracker_state, iou_call, now, frame_queue, stop_event, capture_vars, main_vars>>

PipelineNext == Tick \/ Capture \/ Main \/ UserPressesQ

SpecPipeline == PipelineInit /\ [][PipelineNext]_vars

(***************************************************************************)
(* Properties of the tracker.                                              *)
(***************************************************************************)
Range(f) == {f[i] : i \in 1 .. Len(f)}

AllowList == Range(selected_objects)

\* an active entry of objs with the given label whose IoU with bbox is above the threshold
Overlapping(objs, bbox, label) ==
    {i \in 1 .. Len(objs) :
        /\ ~objs[i].val.missing
        /\ objs[i].val.label = label
        /\ LET f == _iou(bbox, objs[i].val.bbox) IN 2 * f.num > f.den}

\* C1: the first object ever created has id 1, every object created later has an
\* id strictly greater than every id created before it (in earlier calls and
\* earlier in the same call), and no id is assigned twice: each creation adds
\* an entry to tracked_objects and overwrites none, also after the earlier
\* holders have been retired.
C1_IdsStartAtOneIncreaseNoReuse ==
    [][LET old == DictKeys(tracked_objects)
           cr == last_update'.created
       IN  /\ \A i \in 1 .. Len(cr) :
                 /\ cr[i] \notin old
                 /\ \A k \in old : cr[i] > k
                 /\ \A j \in 1 .. (i - 1) : cr[i] > cr[j]
           /\ (tracked_objects = <<>> /\ cr # <<>>) => cr[1] = 1
           /\ Len(tracked_objects') = Len(tracked_objects) + Len(cr)
           /\ DictKeys(tracked_objects') = old \cup Range(cr)
           /\ Cardinality(DictKeys(tracked_objects')) = Len(tracked_objects')]_vars

\* C1 witness: object 1 is retired and the last call created a later object
C1_Witness ==
    /\ Len(tracked_objects) >= 2
    /\ tracked_objects[1].key = 1
    /\ tracked_objects[1].val.missing
    /\ last_update.created # <<>>
    /\ \A i \in 1 .. Len(last_update.created) : last_update.created[i] > 1

\* C2: an active object that an update leaves unmatched has its count of
\* consecutive unmatched updates raised by one and is retired in exactly the
\* update that brings the count to missing_threshold; an update that matches it
\* resets the count; so an active object always has a count below the threshold
\* (still active after missing_threshold - 1 misses, retired by the next one).
C2_RetiredExactlyAtThreshold ==
    [][\A i \in 1 .. Len(tracked_objects) :
          LET key == tracked_objects[i].key
              before == tracked_objects[i].val
              after == tracked_objects'[i].val
          IN  ~before.missing =>
                  /\ before.missing_frames < missing_threshold
                  /\ IF key \in last_update'.matched_ids
                     THEN after.missing_frames = 0 /\ ~after.missing
                     ELSE /\ after.missing_frames = before.missing_frames + 1
                          /\ after.missing <=> (after.missing_frames = missing_threshold)]_vars

\* C2 witness: with a threshold of at least 2, an object has just been retired
\* by its missing_threshold-th consecutive unmatched update
C2_Witness ==
    /\ missing_threshold >= 2
    /\ \E i \in 1 .. Len(tracked_objects) :
          /\ tracked_objects[i].val.missing
          /\ tracked_objects[i].val.missing_frames = missing_threshold
          /\ tracked_objects[i].key \notin last_update.matched_ids
          /\ last_update.detections # <<>>

\* C3: an update never associates a detection with an object that was retired
\* before it and leaves that object's record as it was; a detection with the
\* label and the bbox of a retired object that no active object matches (and
\* that is the first of its label in the call) creates an object with a fresh id.
C3_RetiredNeverMatched ==
    [][\A i \in 1 .. Len(tracked_objects) :
          LET key == tracked_objects[i].key
              before == tracked_objects[i].val
              dets == last_update'.detections
          IN  before.missing =>
                  /\ tracked_objects'[i] = tracked_objects[i]
                  /\ key \notin last_update'.matched_ids
                  /\ \A j \in 1 .. Len(dets) :
                        /\ last_update'.assoc[j] # Some(key)
                        /\ ( /\ dets[j].label = before.label
                             /\ dets[j].bbox = before.bbox
                             /\ \A k \in 1 .. (j - 1) : dets[k].label # dets[j].label
                             /\ Overlapping(tracked_objects, dets[j].bbox, dets[j].label) = {} )
                           => /\ last_update'.assoc[j] # None
                              /\ last_update'.assoc[j][1] >= next_object_id
                              /\ last_update'.assoc[j][1] \in Range(last_update'.created)
                              /\ last_update'.assoc[j][1] \in DictKeys(tracked_objects')]_vars

\* C3 witness: the last call had a detection with the label and (positive-area)
\* bbox of a retired object, and created a new object for it
C3_Witness ==
    \E i \in 1 .. Len(tracked_objects), j \in 1 .. Len(last_update.detections) :
        /\ tracked_objects[i].val.missing
        /\ tracked_objects[i].val.label = last_update.detections[j].label
        /\ tracked_objects[i].val.bbox = last_update.detections[j].bbox
        /\ last_update.detections[j].bbox # BoxZ
        /\ last_update.assoc[j] # None
        /\ last_update.assoc[j][1] \in Range(last_update.created)
        /\ last_update.assoc[j][1] > tracked_objects[i].key

\* C4: within one update call each detection is associated with at most one
\* object and no object is associated with two detections of the call.
C4_OneDetectionPerObject ==
    \A i, j \in 1 .. Len(last_update.assoc) :
        (i # j /\ last_update.assoc[i] # None) => last_update.assoc[i] # last_update.assoc[j]

\* C5: when two or more active objects of the detection's label have an IoU
\* with it above the threshold, the detection is associated with the one of
\* smallest id, whatever the IoU of the others.
C5_FirstCreatedCandidateWins ==
    \A j \in 1 .. Len(last_update.cands) :
        LET c == last_update.cands[j]
        IN  Len(c) >= 2 =>
                /\ last_update.assoc[j] # None
                /\ \A k \in 1 .. Len(c) : last_update.assoc[j][1] <= c[k].key
                /\ \E k \in 1 .. Len(c) : last_update.assoc[j][1] = c[k].key

\* C5 witness: a detection had two candidates, the later-created one with a
\* strictly higher IoU, and went to the earlier-created one
C5_Witness ==
    \E j \in 1 .. Len(last_update.cands) :
        LET c == last_update.cands[j]
        IN  /\ Len(c) >= 2
            /\ c[1].key < c[2].key
            /\ FracGreater(c[2].iou, c[1].iou)
            /\ last_update.assoc[j] = Some(c[1].key)

\* C6: a detection whose label is not in selected_objects is associated with no
\* object, and the tracker after the update is the tracker the same update
\* without those detections leaves: nothing is created or changed for them.
C6_UnselectedLabelsIgnored ==
    [][LET dets == last_update'.detections
           kept == SelectSeq(dets, LAMBDA d : d.label \in AllowList)
       IN  /\ \A j \in 1 .. Len(dets) :
                 dets[j].label \notin AllowList => last_update'.assoc[j] = None
           /\ \A i \in 1 .. Len(tracked_objects') :
                 tracked_objects'[i].val.label \in AllowList
           /\ \E r \in {update(tracked_objects, next_object_id, first_frame_time,
                               missing_threshold, kept, last_update'.frame_time)} :
                 /\ tracked_objects' = r.tracked_objects
                 /\ next_object_id' = r.next_object_id
                 /\ first_frame_time' = r.first_frame_time
                 /\ last_update'.matched_ids = r.matched_ids]_vars

\* C6 witness: the last call had a detection of an unselected label at the bbox
\* of an active object of another label, together with a selected detection
C6_Witness ==
    \E j, k \in 1 .. Len(last_update.detections), i \in 1 .. Len(tracked_objects) :
        /\ last_update.detections[j].label \notin AllowList
        /\ last_update.assoc[j] = None
        /\ last_update.detections[k].label \in AllowList
        /\ ~tracked_objects[i].val.missing
        /\ tracked_objects[i].val.bbox = last_update.detections[j].bbox
        /\ tracked_objects[i].key \notin last_update.matched_ids

(***************************************************************************)
(* Properties of the pipeline.                                             *)
(***************************************************************************)
\* C7: in an iteration where catch-up was due and the drain dequeued at least
\* one frame, the frame handed to the detector and to tracker.update is the last
\* and most recently captured frame the drain dequeued, every other frame the
\* drain dequeued is older and was never handed to tracker.update, and
\* last_catchup_time is that iteration's current_time.
C7_CatchupProcessesNewestOnly ==
    (main_pc = "render" /\ branch = "catchup" /\ skipped_frames > 0) =>
        LET n == Len(drained)
        IN  /\ n = skipped_frames
            /\ cur # None
            /\ cur[1].frame_count = drained[n]
            /\ processed[Len(processed)] = drained[n]
            /\ last_update.detections = cur[1].frame
            /\ last_update.frame_time = cur[1].timestamp - start_time
            /\ \A i \in 1 .. (n - 1) : drained[i] < drained[n] /\ drained[i] \notin handled
            /\ \A i \in 1 .. Len(frame_queue) : frame_queue[i].frame_count > drained[n]
            /\ last_catchup_time = current_time

\* C7 witness: a catch-up iteration has drained several frames and processed one
C7_Witness ==
    /\ main_pc = "render"
    /\ branch = "catchup"
    /\ Len(drained) >= 2
    /\ handled = {drained[Len(drained)]}

\* C8: in an iteration where catch-up is due and the drain finds the queue empty,
\* no frame is processed (the detector and tracker.update are not reached) and
\* last_catchup_time is not advanced.
C8_EmptyCatchupProcessesNothing ==
    (branch = "catchup" /\ skipped_frames = 0) =>
        /\ main_pc \notin {"detect", "update", "render"}
        /\ main_pc = "frame_time" => last_catchup_time # current_time

\* C9: the frame counts handed to tracker.update are strictly increasing: no
\* frame is processed twice and none after a frame captured later.
C9_ProcessedStrictlyIncreasing ==
    \A i, j \in 1 .. Len(processed) : i < j => processed[i] < processed[j]

\* C10: the queue never holds more than SoftCap + 1 entries, holds at most
\* SoftCap whenever the capture thread is not between its put and its eviction,
\* and is below its capacity whenever the capture thread is about to put, so
\* put never blocks.
C10_QueueWithinSoftCap ==
    /\ Len(frame_queue) <= SoftCap + 1
    /\ cap_pc \notin {"qsize", "evict"} => Len(frame_queue) <= SoftCap
    /\ Len(frame_queue) < HardCap
    /\ cap_pc = "put" => Len(frame_queue) < HardCap

\* C10 witness: the capture thread has evicted frame 1 from a queue that had
\* grown to SoftCap + 1 while the main thread had dequeued nothing
C10_Witness ==
    /\ cap_pc = "loop"
    /\ cur = None
    /\ cap_frame_count = SoftCap + 1
    /\ Len(frame_queue) = SoftCap
    /\ frame_queue[1].frame_count = 2

(***************************************************************************)
(* Properties of the way the processing loop ends.                         *)
(***************************************************************************)
\* the capture thread has ended: nothing will be put on the queue any more
CaptureEnded == cap_pc \in {"done", "crashed"}

\* the processing loop waits in frame_queue.get() (line 152 or 162)
WaitingInGet == main_pc \in {"drain_get", "normal_get"}

\* C11: the processing loop never blocks indefinitely on the queue, so that it
\* leaves its loop once the deadline has passed: it is never waiting in a get on
\* an empty queue that no producer will fill, the capture loop having stopped.
C11_NeverBlockedOnQueue ==
    ~(WaitingInGet /\ frame_queue = <<>> /\ CaptureEnded)

\* the try block of main has been left (lines 204-229)
AfterLoop == {"finally", "join", "summary", "report", "done", "raised"}

\* the ways the loop of main ends: line 142, line 197, line 199, line 201
LoopEnds == {"deadline", "quit", "interrupt", "exception"}

\* C12: every way the loop ends (deadline, q, Ctrl-C, exception) leads into the
\* same finalization: the try block is left to line 204 only, with one of the
\* four outcomes; from there the stop signal is set, the join has returned (the
\* capture thread has ended) before the summary is computed, no update is made
\* to the tracker after the loop has ended, the summary is the summary of that
\* tracker state.
C12_Finalization ==
    [][
        /\ (main_pc \in InTry /\ main_pc' \notin InTry)
              => (main_pc' = "finally" /\ outcome' \in LoopEnds)
        /\ main_pc \in AfterLoop
              => (tracker_state' = tracker_state /\ main_pc' \in AfterLoop
                  /\ outcome' = outcome)
        /\ main_pc' \in (AfterLoop \ {"finally"}) => stop_event'
        /\ main_pc' \in {"summary", "report", "done", "raised"} => CaptureEnded'
        /\ detailed_summary' # None
              => (/\ main_pc' \in {"report", "done", "raised"}
                  /\ detailed_summary' =
                        Some(get_detailed_summary(tracked_objects', first_frame_time')))
        /\ main_pc' \in {"report", "done", "raised"} => detailed_summary' # None
    ]_vars

\* the loop ended on an exception with objects tracked, and the finalization has
\* produced their summary after the capture thread ended
C12_Witness ==
    /\ main_pc = "done"
    /\ outcome = "exception"
    /\ tracked_objects # <<>>
    /\ detailed_summary = Some(get_detailed_summary(tracked_objects, first_frame_time))
    /\ detailed_summary[1] # <<>>
    /\ CaptureEnded
    /\ stop_event

\* C13 as the specification states it: when the source has ended (the capture
\* loop has finished) and the queue is empty, the processing loop terminates too:
\* at its loop test it does not start another iteration.
C13_LoopEndsWithSource ==
    [][(main_pc = "while" /\ cap_pc = "done" /\ ~stop_event /\ frame_queue = <<>>)
           => main_pc' # "time"]_vars

\* C13, amended: when the source ends or a read fails only the capture loop
\* terminates (the failed read changes nothing the processing loop reads and
\* sets no stop signal); the processing loop goes on iterating and leaves its
\* loop only at its loop test with now >= end_time, on q after a rendered frame,
\* on Ctrl-C, or on an exception, and never because the capture loop has
\* finished and the queue is empty.
C13_LoopRunsUntilDeadline ==
    [][
        /\ (cap_pc = "read" /\ cap_pc' = "release")
              => UNCHANGED <<main_vars, stop_event, frame_queue, tracker_state>>
        /\ (main_pc \in InTry /\ main_pc' \notin InTry)
              => /\ outcome' = "deadline" => (main_pc = "while" /\ now >= end_time)
                 /\ outcome' = "quit" => main_pc = "render"
                 /\ outcome' = "exception" => main_pc \in {"frame_time", "detect"}
                 /\ outcome' \in LoopEnds
        /\ (main_pc = "while" /\ main_pc' \in InTry \ {"while"}) => now < end_time
    ]_vars

\* the capture loop has finished on a failed read, the queue is empty, the
\* deadline has not come, and the processing loop has started another iteration
C13_Witness ==
    /\ cap_pc = "done"
    /\ released
    /\ ~stop_event
    /\ frame_queue = <<>>
    /\ cur # None
    /\ cur[1].frame_count = cap_frame_count
    /\ cur[1].frame_count \in handled
    /\ main_pc = "normal_test"
    /\ now < end_time

\* the loop ended on an exception raised with a frame in hand: the detector
\* failed (the other exception of the loop is raised with no frame dequeued)
DetectorFailed == outcome = "exception" /\ cur # None

\* C14: when the detector fails on a frame, tracker.update is not invoked for
\* that frame (the failing step leaves the tracker and the record of processed
\* frames as they are), the failure is reported and the loop is left, no later
\* frame is processed (the tracker is never updated again), and the summary the
\* finalization produces is that of the tracker state left by the last frame
\* processed successfully.
C14_DetectorFailureAbortsRun ==
    [][
        /\ (main_pc = "detect" /\ outcome' = "exception")
              => (main_pc' = "finally" /\ tracker_state' = tracker_state
                  /\ processed' = processed /\ handled' = handled)
        /\ DetectorFailed
              => (main_pc \in AfterLoop /\ main_pc' \in AfterLoop /\ DetectorFailed'
                  /\ tracker_state' = tracker_state
                  /\ processed' = processed /\ handled' = handled)
        /\ (DetectorFailed' /\ detailed_summary' # None)
              => detailed_summary' =
                    Some(get_detailed_summary(tracked_objects', first_frame_time'))
    ]_vars

\* the detector failed on a frame after an earlier frame was processed: the
\* failed frame never reached the tracker, and the summary was produced
C14_Witness ==
    /\ DetectorFailed
    /\ handled # {}
    /\ cur[1].frame_count \notin handled
    /\ main_pc = "done"
    /\ detailed_summary # None
    /\ detailed_summary[1] # <<>>

\* C15: cancellation is observed at the top of each loop iteration in both
\* threads: once the user has requested cancellation (q is pressed) the
\* processing loop starts processing no further frame (no step takes it on to the
\* detector, line 168) before it exits, and once the stop signal is set the
\* capture loop, at its loop test, starts no further read, so that it pushes at
\* most the frame it was reading and then terminates.
C15_CancellationAtLoopTop ==
    [][
        /\ (key_pressed /\ main_pc \in InTry /\ main_pc # "detect") => main_pc' # "detect"
        /\ (stop_event /\ cap_pc = "loop") => cap_pc' \in {"loop", "release"}
        /\ (stop_event /\ cap_pc = "release") => cap_pc' \in {"release", "done"}
    ]_vars

(***************************************************************************)
(* Properties of the summary.                                              *)
(***************************************************************************)
\* the entries of a summary, with the label they are listed under
Listed(summary) ==
    UNION {{[label |-> summary[i].key, entry |-> summary[i].val[j]] :
               j \in 1 .. Len(summary[i].val)} : i \in 1 .. Len(summary)}

\* the entry of a summary for an id (the id is listed)
EntryOf(summary, id) == (CHOOSE l \in Listed(summary) : l.entry.id = id).entry

\* C16: the epoch is the frame_time of the first update call ever made and never
\* changes afterwards; every object in the result of get_detailed_summary is
\* reported with its stored first_seen and last_seen minus the epoch; and the
\* objects created by the first update call are reported with first_seen 0.
C16_TimesRelativeToEpoch ==
    [][
        /\ first_frame_time = None =>
              \/ first_frame_time' = None /\ last_update' = last_update
              \/ /\ first_frame_time' = Some(last_update'.frame_time)
                 /\ \A k \in Range(last_update'.created) :
                       EntryOf(get_detailed_summary(tracked_objects', first_frame_time'),
                               k).first_seen = 0
        /\ first_frame_time # None => first_frame_time' = first_frame_time
        /\ detailed_summary' # None =>
              \A i \in 1 .. Len(tracked_objects') :
                 LET obj == tracked_objects'[i].val
                     e == EntryOf(detailed_summary'[1], tracked_objects'[i].key)
                 IN  /\ e.first_seen = obj.first_seen - first_frame_time'[1]
                     /\ e.last_seen = obj.last_seen - first_frame_time'[1]
    ]_vars

\* the first update was made at a frame time other than 0 and created object 1,
\* which the summary reports with first_seen 0
C16_Witness ==
    /\ detailed_summary # None
    /\ first_frame_time = Some(1)
    /\ tracked_objects # <<>>
    /\ tracked_objects[1].val.first_seen = 1
    /\ EntryOf(detailed_summary[1], 1).first_seen = 0
    /\ EntryOf(detailed_summary[1], 1).last_seen = 0

\* the ids listed under a label, in the order of the list
ListedIds(summary, label) ==
    LET entries == DictGet(summary, label)
    IN  [j \in 1 .. Len(entries) |-> entries[j].id]

\* C17: get_detailed_summary lists every tracked object, active or retired,
\* exactly once, under its own label (and no label twice, no list empty, nothing
\* else), with ids increasing within each label's list; computing the summary
\* leaves the tracker state unchanged, and a second call returns the same result.
C17_SummaryListsEveryObjectOnce ==
    [][
        /\ detailed_summary' # None =>
              LET summary == detailed_summary'[1]
              IN
                /\ \A i \in 1 .. Len(tracked_objects') :
                      LET obj == tracked_objects'[i].val
                          hits == {l \in Listed(summary) : l.entry.id = obj.id}
                      IN  /\ Cardinality(hits) = 1
                          /\ \A l \in hits :
                                /\ l.label = obj.label
                                /\ l.entry.missing = obj.missing
                                /\ l.entry.total_time = obj.total_time
                                /\ l.entry.missing_frames = obj.missing_frames
                /\ \A m, n \in 1 .. Len(summary) : summary[m].key = summary[n].key => m = n
                /\ \A k \in 1 .. Len(summary) :
                      LET ids == ListedIds(summary, summary[k].key)
                      IN  /\ Len(ids) > 0
                          /\ \A a, b \in 1 .. Len(ids) : a < b => ids[a] < ids[b]
                          /\ \A a \in 1 .. Len(ids) : ids[a] \in DictKeys(tracked_objects')
        /\ detailed_summary' # detailed_summary => tracker_state' = tracker_state
        /\ detailed_summary # None => detailed_summary' = detailed_summary
    ]_vars

\* a summary of a retired and an active object of one label
C17_Witness ==
    /\ detailed_summary # None
    /\ Len(tracked_objects) = 2
    /\ tracked_objects[1].val.missing
    /\ ~tracked_objects[2].val.missing
    /\ tracked_objects[1].val.label = tracked_objects[2].val.label
    /\ ListedIds(detailed_summary[1], tracked_objects[1].val.label) = <<1, 2>>

\* the call recorded in last_update showed a detection of the label
Shown(call, label) ==
    \E i \in 1 .. Len(call.detections) : call.detections[i].label = label

\* C18: an object of label L detected at a fixed non-degenerate box at frame
\* times 0..k, then not detected for missing_threshold frames or more, then a
\* detection of L at time t.  After each frame that shows the object, at time k,
\* its total_time is k; the frames without it leave that as it is and retire the
\* object; the detection at time t leaves the retired object as it is and
\* creates a second one first seen at t; and the final summary lists exactly
\* two ids for L, the first with that total_time and missing = True, the
\* second with first_seen = t and missing = False.
C18_VanishAndReappear ==
    [][
        /\ (last_update' # last_update /\ Len(tracked_objects') = 1)
              => LET obj == tracked_objects'[1].val
                 IN  IF Shown(last_update', obj.label)
                     THEN /\ obj.id = 1
                          /\ obj.first_seen = 0
                          /\ obj.total_time = last_update'.frame_time
                          /\ ~obj.missing
                     ELSE /\ obj.total_time = tracked_objects[1].val.total_time
                          /\ obj.missing <=> obj.missing_frames >= missing_threshold
        /\ (Len(tracked_objects) = 1 /\ Len(tracked_objects') = 2)
              => /\ tracked_objects[1].val.missing
                 /\ tracked_objects'[1] = tracked_objects[1]
        /\ detailed_summary' # None
              => LET summary == detailed_summary'[1]
                     label == tracked_objects'[1].val.label
                     entries == DictGet(summary, label)
                 IN  /\ Len(summary) = 1
                     /\ ListedIds(summary, label) = <<1, 2>>
                     /\ entries[1].total_time = tracked_objects'[1].val.total_time
                     /\ entries[1].total_time = entries[1].last_seen
                     /\ entries[1].missing
                     /\ entries[2].first_seen = last_update'.frame_time
                     /\ ~entries[2].missing
    ]_vars

\* the object was shown at times 0 and 1 (k = 1), stayed away for two frames with
\* missing_threshold 2, a detection came at time 5 at the same box, and the
\* summary was taken
C18_Witness ==
    /\ detailed_summary # None
    /\ missing_threshold = 2
    /\ Len(tracked_objects) = 2
    /\ tracked_objects[1].val.total_time = 1
    /\ tracked_objects[1].val.missing_frames = 2
    /\ tracked_objects[2].val.bbox = tracked_objects[1].val.bbox
    /\ DictGet(detailed_summary[1], tracked_objects[1].val.label)[2].first_seen = 5

(***************************************************************************)
(* Properties of the stored records.                                       *)
(***************************************************************************)
\* C19: retirement is one-way and terminal: an object whose missing flag is True
\* keeps its place and its id, its flag is True after every later update, and no
\* later update changes its bbox, last_seen, total_time or missing_frames.
C19_RetirementIsTerminal ==
    [][\A i \in 1 .. Len(tracked_objects) :
          tracked_objects[i].val.missing =>
              /\ i <= Len(tracked_objects')
              /\ tracked_objects'[i].key = tracked_objects[i].key
              /\ tracked_objects'[i].val.missing
              /\ tracked_objects'[i].val.bbox = tracked_objects[i].val.bbox
              /\ tracked_objects'[i].val.last_seen = tracked_objects[i].val.last_seen
              /\ tracked_objects'[i].val.total_time = tracked_objects[i].val.total_time
              /\ tracked_objects'[i].val.missing_frames
                     = tracked_objects[i].val.missing_frames]_vars

\* object 1 was retired after two frames without it, and a later call, at a
\* later frame time, brought a detection of its label at a box overlapping its
\* box without matching it: its record is as it was at retirement
C19_Witness ==
    /\ missing_threshold = 2
    /\ tracked_objects # <<>>
    /\ tracked_objects[1].val.missing
    /\ tracked_objects[1].val.missing_frames = 2
    /\ tracked_objects[1].val.last_seen < last_update.frame_time
    /\ 1 \notin last_update.matched_ids
    /\ \E j \in 1 .. Len(last_update.detections) :
          /\ last_update.detections[j].label = tracked_objects[1].val.label
          /\ FracGreater(_iou(last_update.detections[j].bbox, tracked_objects[1].val.bbox),
                         iou_threshold)

\* every stored total_time is last_seen - first_seen
TimesConsistent(objs) ==
    \A i \in 1 .. Len(objs) :
        objs[i].val.total_time = objs[i].val.last_seen - objs[i].val.first_seen

\* no object was last seen before it was first seen
TimesOrdered(objs) ==
    \A i \in 1 .. Len(objs) : objs[i].val.first_seen <= objs[i].val.last_seen

\* no stored time is later than the frame time of the call
NotAfter(objs, call) ==
    \A i \in 1 .. Len(objs) : objs[i].val.last_seen <= call.frame_time

\* C20 as the specification states it: after any sequence of update calls, for
\* any sequence of frame times, every tracked object has first_seen <= last_seen
\* and total_time = last_seen - first_seen.
C20_TimesOrderedForAnyFrameTimes ==
    TimesOrdered(tracked_objects) /\ TimesConsistent(tracked_objects)

\* C20, amended: total_time = last_seen - first_seen holds after any sequence of
\* update calls, and first_seen <= last_seen holds as long as the frame times
\* passed to update never decrease: an update whose frame time is not before
\* that of the call before it keeps every object's first_seen <= last_seen and
\* last_seen up to that frame time.
C20_TimesOrderedForNondecreasingFrameTimes ==
    [][
        /\ TimesConsistent(tracked_objects')
        /\ ( /\ TimesOrdered(tracked_objects)
             /\ NotAfter(tracked_objects, last_update)
             /\ last_update'.frame_time >= last_update.frame_time )
           => ( /\ TimesOrdered(tracked_objects')
                /\ NotAfter(tracked_objects', last_update') )
    ]_vars

\* after frame times that never decreased, an object first seen at 0 was matched
\* again at 1, and another was created at 1
C20_Witness ==
    /\ Len(tracked_objects) = 2
    /\ TimesOrdered(tracked_objects)
    /\ NotAfter(tracked_objects, last_update)
    /\ tracked_objects[1].val.first_seen = 0
    /\ tracked_objects[1].val.last_seen = 1
    /\ tracked_objects[1].val.total_time = 1
    /\ tracked_objects[2].val.first_seen = 1
    /\ last_update.frame_time = 1
    /\ last_update.matched_ids = {1, 2}

(***************************************************************************)
(* Properties of the lookups.                                              *)
(***************************************************************************)
\* what update would do in the present state with the one detection (bbox, label)
UpdateWouldDo(bbox, label) ==
    update(tracked_objects, next_object_id, first_frame_time, missing_threshold,
           <<[bbox |-> bbox, label |-> label]>>, last_update.frame_time)

\* C21: a call of _find_matching_object(bbox, label) changes no tracker state,
\* and what it returns is the id the matching step of update would select in
\* that state for a detection with that bbox and label: if it returns an id,
\* update would associate the detection with that id and create nothing; if it
\* returns none, update would create a new object for it (or skip it, its label
\* not being selected).
C21_QueryIsReadOnlyMatchingStep ==
    [][obj_ids' # obj_ids =>
          /\ tracker_state' = tracker_state
          /\ \A j \in 1 .. Len(obj_ids') :
                LET q == obj_ids'[j]
                    r == UpdateWouldDo(q.bbox, q.label)
                IN  IF q.obj_id # None
                    THEN r.assoc = <<q.obj_id>> /\ r.created = <<>>
                    ELSE IF IsSelected(q.label)
                    THEN r.created = <<next_object_id>> /\ r.assoc = <<Some(next_object_id)>>
                    ELSE r.created = <<>> /\ r.assoc = <<None>>]_vars

\* two active objects both pass the test for the box looked up, and the lookup
\* returned the one created first
C21_Witness ==
    /\ Len(obj_ids) = 1
    /\ obj_ids[1].obj_id = Some(1)
    /\ Len(Candidates(tracked_objects, obj_ids[1].bbox, obj_ids[1].label)) = 2
    /\ ~Rendered

(***************************************************************************)
(* Properties of _iou.                                                     *)
(***************************************************************************)
Area(box) == (box[3] - box[1]) * (box[4] - box[2])

\* two results of _iou are the same number
SameFraction(p, q) == p.num * q.den = q.num * p.den

\* C22: over boxes with integer coordinates, _iou(A, A) is 1 for every box A of
\* positive area, and _iou(A, B) is _iou(B, A) for every pair of boxes.
C22_IouReflexiveSymmetric ==
    [][iou_call'.result # None =>
          LET a == iou_call'.box1
              b == iou_call'.box2
              v == iou_call'.result[1]
          IN  /\ v.den > 0
              /\ (a = b /\ Area(a) > 0) => v.num = v.den
              /\ SameFraction(v, _iou(b, a))]_vars

\* _iou was called with two different overlapping boxes of different areas
C22_Witness ==
    /\ iou_call # None
    /\ iou_call.result # None
    /\ iou_call.box1 # iou_call.box2
    /\ Area(iou_call.box1) > Area(iou_call.box2)
    /\ Area(iou_call.box2) > 0
    /\ iou_call.result[1].num > 0
    /\ iou_call.result[1].num < iou_call.result[1].den

(***************************************************************************)
(* Properties of the match branch and the missing_frames pass of update.   *)
(***************************************************************************)
\* C23: an object matched in every update after its creation has
\* missing_frames 0 after every update and is never retired: after each update,
\* every object the call created or matched has missing_frames 0 and is not
\* retired, so an object for which this was the case at every call never
\* counted a frame.
C23_MatchedNeverCountsNorRetires ==
    \A i \in 1 .. Len(tracked_objects) :
        tracked_objects[i].key \in last_update.matched_ids =>
            /\ tracked_objects[i].val.missing_frames = 0
            /\ ~tracked_objects[i].val.missing

\* the latest update matched an object of an earlier call while another active
\* object, not matched, counted a frame
C23_Witness ==
    \E i, j \in 1 .. Len(tracked_objects) :
        /\ tracked_objects[i].key \in last_update.matched_ids
        /\ \A k \in 1 .. Len(last_update.created) :
              last_update.created[k] # tracked_objects[i].key
        /\ tracked_objects[j].key \notin last_update.matched_ids
        /\ tracked_objects[j].val.missing_frames > 0
        /\ ~tracked_objects[j].val.missing

\* C24: for each detection of the list just passed to update, the id the
\* render path resolves with _find_matching_object is the id update assigned
\* to that detection.
C24_RenderResolvesAssignedId ==
    Rendered =>
        \A j \in 1 .. Len(obj_ids) : obj_ids[j].obj_id = last_update.assoc[j]

(***************************************************************************)
(* Properties of the capture thread.                                       *)
(***************************************************************************)
\* C25: the eviction step of the capture thread (the qsize test, then
\* get_nowait) completes without raising under every interleaving with the
\* processing loop; the capture loop ends only on the stop signal or a failed
\* read, and whenever it has ended the frame source is released.
C25_EvictionNeverRaises ==
    /\ cap_pc # "crashed"
    /\ CaptureEnded => released

(***************************************************************************)
(* Properties of the processing loop's calls of tracker.update.            *)
(***************************************************************************)
\* C26: tracker.update is invoked at most once per captured frame: the frame a
\* call of line 171 is made for has not been handed to update before (so that
\* missing_frames rises by at most one per distinct captured frame, also while
\* the queue stays empty across catch-up times).
C26_UpdateOncePerCapturedFrame ==
    [][(main_pc = "update" /\ main_pc' = "render") =>
            cur[1].frame_count \notin handled]_vars

(***************************************************************************)
(* Properties of the finalization when nothing was processed.              *)
(***************************************************************************)
\* C27: the finalization completes without raising on every path, also when
\* no frame was ever dequeued: the summary of the empty tracker is the empty
\* mapping and the closing report is produced.
C27_FinalizationNeverRaises ==
    /\ main_pc # "raised"
    /\ (main_pc \in {"report", "done"} /\ cur = None) =>
            detailed_summary = Some(get_detailed_summary(<<>>, None))

(***************************************************************************)
(* Properties of the numbering of the captured frames.                     *)
(***************************************************************************)
\* the capture loop has been left by its loop test or by a failed read
CaptureLoopLeft == cap_pc \in {"release", "done"}

\* C28: the capture thread numbers the frames it pushes 1, 2, 3, ... in the
\* order it read them: the k-th push carries frame_count k and the frame just
\* read, and the queue holds consecutive counts ending at the last one pushed.
\* After the first failed read (or the stop signal) it neither reads nor pushes
\* again, and it releases the source.
C28_FramesNumberedInReadOrder ==
    [][
        /\ cap_frame_count' # cap_frame_count =>
              /\ cap_pc = "put"
              /\ cap_frame_count' = cap_frame_count + 1
              /\ frame_queue' = Append(frame_queue, frame_queue'[Len(frame_queue')])
              /\ frame_queue'[Len(frame_queue')].frame_count = cap_frame_count'
              /\ frame_queue'[Len(frame_queue')].frame = cap_frame[1]
        /\ Len(frame_queue') > Len(frame_queue) => cap_frame_count' = cap_frame_count + 1
        /\ \A i \in 1 .. Len(frame_queue') :
              frame_queue'[i].frame_count = cap_frame_count' - Len(frame_queue') + i
        /\ CaptureLoopLeft =>
              /\ CaptureLoopLeft'
              /\ cap_frame_count' = cap_frame_count
              /\ cap_frame' = cap_frame
              /\ Len(frame_queue') <= Len(frame_queue)
        /\ cap_pc' = "done" => released'
        /\ released' => cap_pc' = "done"
    ]_vars

\* the third read failed with no stop signal set: frames 1 and 2 were pushed,
\* frame 2 is still queued, and the source is released
C28_Witness ==
    /\ cap_pc = "done"
    /\ released
    /\ ~stop_event
    /\ cap_frame_count = 2
    /\ frame_queue # <<>>
    /\ frame_queue[Len(frame_queue)].frame_count = 2

(***************************************************************************)
(* Properties of what a match writes.                                      *)
(***************************************************************************)
\* the detections of the call that were associated with the object id
AssociatedWith(call, id) ==
    {j \in 1 .. Len(call.assoc) : call.assoc[j] = Some(id)}

\* the box of the last detection of the call associated with the object id
LastBoxOf(call, id) ==
    call.detections[CHOOSE j \in AssociatedWith(call, id) :
                        \A k \in AssociatedWith(call, id) : k <= j].bbox

\* C29: an update call leaves each object it matched with bbox the box of the
\* detection matched to it, last_seen the frame time, total_time the frame time
\* minus first_seen and missing_frames 0, and with its id, label and first_seen
\* as before; the bbox, last_seen, total_time, label and first_seen of every
\* object the call did not match are as before.
C29_MatchWritesOnlyTheMatchedObject ==
    [][\A i \in 1 .. Len(tracked_objects) :
          LET id == tracked_objects[i].key
              old == tracked_objects[i].val
              new == tracked_objects'[i].val
          IN  /\ tracked_objects'[i].key = id
              /\ new.id = old.id
              /\ new.label = old.label
              /\ new.first_seen = old.first_seen
              /\ IF id \in last_update'.matched_ids
                 THEN /\ new.bbox = LastBoxOf(last_update', id)
                      /\ new.last_seen = last_update'.frame_time
                      /\ new.total_time = last_update'.frame_time - old.first_seen
                      /\ new.missing_frames = 0
                 ELSE /\ new.bbox = old.bbox
                      /\ new.last_seen = old.last_seen
                      /\ new.total_time = old.total_time]_vars

\* the latest call matched object 1, seen first at time 0, at time 1 with a box
\* other than the one it had, and did not match object 2
C29_Witness ==
    /\ Len(tracked_objects) = 2
    /\ last_update.matched_ids = {1}
    /\ last_update.created = <<>>
    /\ \E j \in 1 .. Len(last_update.cands) :
          /\ last_update.assoc[j] = Some(1)
          /\ last_update.cands[j] # <<>>
          /\ last_update.cands[j][1].key = 1
          /\ last_update.cands[j][1].iou.num < last_update.cands[j][1].iou.den
    /\ tracked_objects[1].val.first_seen = 0
    /\ tracked_objects[1].val.last_seen = 1
    /\ tracked_objects[1].val.total_time = 1
    /\ tracked_objects[2].val.last_seen = 0
    /\ tracked_objects[2].val.missing_frames > 0

(***************************************************************************)
(* Properties of the threshold test.                                       *)
(***************************************************************************)
\* the active objects with the label whose IoU with the box is exactly the threshold
AtThreshold(objs, bbox, label) ==
    {i \in 1 .. Len(objs) :
        /\ ~objs[i].val.missing
        /\ objs[i].val.label = label
        /\ _iou(bbox, objs[i].val.bbox).num * iou_threshold.den
               = iou_threshold.num * _iou(bbox, objs[i].val.bbox).den}

\* the active objects with the label whose IoU with the box is above the threshold
AboveThreshold(objs, bbox, label) ==
    {i \in 1 .. Len(objs) :
        /\ ~objs[i].val.missing
        /\ objs[i].val.label = label
        /\ _iou(bbox, objs[i].val.bbox).num * iou_threshold.den
               > iou_threshold.num * _iou(bbox, objs[i].val.bbox).den}

\* C30: the threshold test is strict.  Every object the matching step of an
\* update call took as a candidate has an IoU above the threshold; a detection
\* is not matched to an object whose IoU with it is exactly the threshold, and
\* when no other object exceeds the threshold a new object is created for it.
C30_ThresholdIsStrict ==
    [][
        /\ \A j \in 1 .. Len(last_update'.cands) :
              \A c \in 1 .. Len(last_update'.cands[j]) :
                  last_update'.cands[j][c].iou.num * iou_threshold.den
                      > iou_threshold.num * last_update'.cands[j][c].iou.den
        /\ (Len(last_update'.detections) = 1
                /\ IsSelected(last_update'.detections[1].label)) =>
              LET d == last_update'.detections[1]
                  eq == AtThreshold(tracked_objects, d.bbox, d.label)
                  above == AboveThreshold(tracked_objects, d.bbox, d.label)
              IN  /\ \A i \in eq : last_update'.assoc[1] # Some(tracked_objects[i].key)
                  /\ above = {} =>
                        /\ last_update'.created = <<next_object_id>>
                        /\ last_update'.assoc[1] = Some(next_object_id)
                        /\ Len(tracked_objects') = Len(tracked_objects) + 1
                  /\ above # {} => last_update'.created = <<>>
    ]_vars

\* the latest call brought one car at BoxA while object 1 was an active car at
\* BoxB, IoU exactly 1/2: object 1 was not matched and object 2 was created
C30_Witness ==
    /\ Len(tracked_objects) = 2
    /\ last_update.detections = <<[bbox |-> BoxA, label |-> "car"]>>
    /\ last_update.created = <<2>>
    /\ last_update.matched_ids = {2}
    /\ tracked_objects[1].val.label = "car"
    /\ tracked_objects[1].val.bbox = BoxB
    /\ tracked_objects[1].val.missing_frames = 1
    /\ tracked_objects[2].val.bbox = BoxA

(***************************************************************************)
(* Properties of _iou on boxes that do not overlap or have no area.        *)
(***************************************************************************)
\* the unit cell with lower left corner (x, y) lies in the box
CellIn(x, y, box) ==
    /\ box[1] <= x
    /\ x + 1 <= box[3]
    /\ box[2] <= y
    /\ y + 1 <= box[4]

\* the two boxes share a region of positive area
OverlapInArea(a, b) ==
    \E x \in Coords, y \in Coords : CellIn(x, y, a) /\ CellIn(x, y, b)

\* C31: over boxes with integer coordinates, xmin <= xmax and ymin <= ymax,
\* _iou returns 0 whenever the boxes do not overlap in positive area, whenever
\* either box has zero area and whenever the union area is zero, dividing by a
\* positive number only; a zero-area box passes the threshold test with no box.
C31_IouZeroWithoutOverlap ==
    [][iou_call'.result # None =>
          LET a == iou_call'.box1
              b == iou_call'.box2
              v == iou_call'.result[1]
          IN  /\ v.den > 0
              /\ v.num >= 0
              /\ ~OverlapInArea(a, b) => v.num = 0
              /\ OverlapInArea(a, b) => v.num > 0
              /\ (Area(a) = 0 \/ Area(b) = 0) => v.num = 0
              /\ Area(a) + Area(b) = 0 => v.num = 0
              /\ (Area(a) = 0 \/ Area(b) = 0) =>
                    v.num * iou_threshold.den <= iou_threshold.num * v.den]_vars

\* _iou was called with a zero-area box lying inside a box of positive area
C31_Witness ==
    /\ iou_call # None
    /\ iou_call.result # None
    /\ Area(iou_call.box1) = 0
    /\ Area(iou_call.box2) > 0
    /\ iou_call.box2[1] < iou_call.box1[1]
    /\ iou_call.box1[3] < iou_call.box2[3]
    /\ iou_call.box2[2] <= iou_call.box1[2]
    /\ iou_call.box1[4] <= iou_call.box2[4]
    /\ iou_call.result[1].num = 0

(***************************************************************************)
(* Properties of the set of tracked objects.                               *)
(***************************************************************************)
\* the keys of tracked_objects are 1 .. next_object_id - 1, each once, and each
\* entry carries its key as id
KeysAreAllIdsGiven(objs, nid) ==
    /\ DictKeys(objs) = 1 .. (nid - 1)
    /\ Cardinality(DictKeys(objs)) = Len(objs)
    /\ \A i \in 1 .. Len(objs) : objs[i].val.id = objs[i].key

\* C32: tracked objects are never removed.  Before and after every update the
\* keys of tracked_objects are exactly 1 .. next_object_id - 1 and each entry's
\* id is its key, and the keys after an update include the keys before it.
C32_ObjectsNeverRemoved ==
    [][
        /\ KeysAreAllIdsGiven(tracked_objects, next_object_id)
        /\ KeysAreAllIdsGiven(tracked_objects', next_object_id')
        /\ DictKeys(tracked_objects) \subseteq DictKeys(tracked_objects')
        /\ next_object_id' >= next_object_id
    ]_vars

\* object 1 was retired by an earlier call and is still an entry after a call
\* that matched object 2 and created nothing
C32_Witness ==
    /\ next_object_id = 3
    /\ DictKeys(tracked_objects) = {1, 2}
    /\ DictGet(tracked_objects, 1).missing
    /\ DictGet(tracked_objects, 1).missing_frames = missing_threshold
    /\ last_update.created = <<>>
    /\ last_update.matched_ids = {2}

(***************************************************************************)
(* Properties of missing_frames and the retired flag in every state.       *)
(***************************************************************************)
\* an object is retired exactly when its missing_frames has reached the
\* threshold: below it while active, equal to it once retired
RetiredIffAtThreshold(objs, threshold) ==
    \A i \in 1 .. Len(objs) :
        /\ objs[i].val.missing <=> (objs[i].val.missing_frames >= threshold)
        /\ ~objs[i].val.missing =>
              (0 <= objs[i].val.missing_frames /\ objs[i].val.missing_frames < threshold)
        /\ objs[i].val.missing => objs[i].val.missing_frames = threshold

\* C33: with missing_threshold >= 1, in every reachable tracker state an
\* object is retired if and only if its missing_frames >= missing_threshold
\* (active objects are in 0 .. missing_threshold - 1, retired ones are at
\* missing_threshold), and an update raises the missing_frames of an active
\* object it did not match by exactly 1.
C33_RetiredIffThresholdReached ==
    [][
        /\ missing_threshold >= 1
        /\ RetiredIffAtThreshold(tracked_objects, missing_threshold)
        /\ RetiredIffAtThreshold(tracked_objects', missing_threshold')
        /\ \A i \in 1 .. Len(tracked_objects) :
              (/\ ~tracked_objects[i].val.missing
               /\ tracked_objects[i].key \notin last_update'.matched_ids) =>
                  tracked_objects'[i].val.missing_frames
                      = tracked_objects[i].val.missing_frames + 1
    ]_vars

\* one object is retired, at the threshold, and another is active one missed
\* frame below the threshold
C33_Witness ==
    /\ missing_threshold = 2
    /\ Len(tracked_objects) = 2
    /\ tracked_objects[1].val.missing
    /\ tracked_objects[1].val.missing_frames = 2
    /\ ~tracked_objects[2].val.missing
    /\ tracked_objects[2].val.missing_frames = 1
    /\ last_update.matched_ids = {}

====
